---- MODULE Spec2Model ----
(***************************************************************************)
(* The user/profile API of server/routes: registration (POST /users), the  *)
(* x-auth-token middleware, and the profile handlers of routes/profile.js. *)
(* Every handler is cut at its awaited store calls: the synchronous code   *)
(* up to and including one store call is one step, so that the steps of    *)
(* concurrently served requests interleave as they do under the event loop.*)
(***************************************************************************)
EXTENDS Integers, Sequences, FiniteSets, Bags, TLC

VARIABLES
  users,          \* the User collection: a set of documents
  profiles,       \* the Profile collection, in the store's natural order
  nextUserId,     \* the next _id of a User document
  nextProfileId,  \* the next _id of a Profile document
  nextSubId,      \* the next _id of an experience / education subdocument
  req,            \* the requests being served: a bag of handler frames
  last,           \* the response sent last
  issued,         \* the tokens handed to clients
  now             \* the clock, in seconds

vars == <<users, profiles, nextUserId, nextProfileId, nextSubId,
          req, last, issued, now>>

(* ------------------------------ bounds -------------------------------- *)

\* _ids the store hands out for User documents
MaxUsers == 2
\* _ids the store hands out for Profile documents
MaxProfiles == 2
\* _ids handed out for experience / education subdocuments
MaxEntries == 3
\* requests served at the same time
MaxInFlight == 2
\* times the clock advances by one token lifetime
MaxTicks == 1

(* --------------------------- program constants ------------------------ *)

\* isLength({ min: 6 })
PasswordMin == 6
\* bcrypt.genSalt(10)
SaltRounds == 10
\* { expiresIn: 360000 }
ExpiresIn == 360000

\* config.get("jwtSecret")
jwtSecret == "jwtSecret"

(* ------------------------------ inputs -------------------------------- *)

ValidEmails == {"a@x.io", "b@x.io"}
\* passwords are strings of character codes
ShortPassword == <<1, 2, 3>>
GoodPassword == <<1, 2, 3, 4, 5, 6>>
LongPassword == <<7, 6, 5, 4, 3, 2, 1>>
PasswordInputs == {ShortPassword, GoodPassword, LongPassword}
\* the salts bcrypt.genSalt may draw
Salts == {1, 2}

RegisterBodies ==
  [name : {"ann"}, email : ValidEmails, password : {GoodPassword, LongPassword}]
  \cup { [name |-> "", email |-> "not-an-email", password |-> ShortPassword],
         [name |-> "ann", email |-> "a@x.io", password |-> ShortPassword] }

TopFields == {"company", "website", "location", "bio", "status", "githubusername"}
SocialFields == {"youtube", "twitter", "facebook", "linkedin", "instagram"}

\* a string is a sequence of one-character strings where it is taken apart
SkillsInput == <<"n", ",", " ", "r", " ">>

\* a body that carries the optional fields of shape with value v
ProfileBody(shape, v, status, skills) ==
  [top    |-> [f \in TopFields |->
                 IF f = "status" THEN status ELSE IF f \in shape THEN v ELSE ""],
   social |-> [f \in SocialFields |-> IF f \in shape THEN v ELSE ""],
   skills |-> skills]

FullBody == ProfileBody((TopFields \ {"status"}) \cup SocialFields, "v1", "dev", SkillsInput)
\* a later body that gives one link and the required fields only
LinkBody == ProfileBody({"twitter"}, "v2", "dev", SkillsInput)

ProfileBodies ==
  { FullBody, LinkBody,
    ProfileBody({"company"}, "v1", "", SkillsInput),
    ProfileBody({"company"}, "v1", "dev", <<>>) }

ExpBodies ==
  [title : {"", "eng"}, company : {"acme"}, location : {""}, from : {"2019"},
   to : {""}, current : {FALSE}, description : {""}]

EduBodies ==
  [school : {"", "mit"}, degree : {"bsc"}, fieldOfStudy : {"cs"},
   from : {"2015"}, to : {""}, current : {FALSE}, description : {""}]

(* --------------------------- pure functions --------------------------- *)

\* isEmail()
IsEmail(e) == e \in ValidEmails

\* gravatar.url(email, { s: "200", r: "pg", d: "mm" })
gravatarUrl(email) == <<"gravatar", email, "s=200", "r=pg", "d=mm">>

RECURSIVE Digest(_)
Digest(pw) ==
  IF pw = <<>> THEN 0 ELSE (Head(pw) * Len(pw) + 3 * Digest(Tail(pw))) % 97

\* bcrypt.hash(password, salt): the salted hash, a string that carries the
\* cost and the salt in front of the digest
\* (a faulty variant: the password as it came)
bcryptPlain(password, salt) == password
bcryptHash(password, salt) ==
  <<SaltRounds, salt, (Digest(password) + 31 * salt) % 97>>

\* bcrypt.compare(plaintext, hash)
bcryptCompare(password, hash) ==
  /\ Len(hash) = 3
  /\ hash = <<hash[1], hash[2], (Digest(password) + 31 * hash[2]) % 97>>

\* the signature of a payload under a secret
Mac(payload, exp, secret) == <<payload.user.id, exp, secret>>

\* jwt.sign(payload, secret, { expiresIn })
jwtSign(payload, secret, at) ==
  [user |-> payload.user, exp |-> at + ExpiresIn, sig |-> Mac(payload, at + ExpiresIn, secret)]

\* jwt.verify(token, secret): the signature matches and the token has not expired
jwtVerify(token, secret, at) ==
  /\ token.sig = Mac([user |-> token.user], token.exp, secret)
  /\ at < token.exp

\* errors.array() of the failed checks, in the order the checks are declared
RECURSIVE errorsArray(_)
errorsArray(checks) ==
  IF checks = <<>> THEN <<>>
  ELSE IF Head(checks).ok THEN errorsArray(Tail(checks))
       ELSE <<[param |-> Head(checks).param, msg |-> Head(checks).msg]>>
            \o errorsArray(Tail(checks))

\* String.prototype.trim
RECURSIVE TrimLeft(_)
TrimLeft(s) == IF s # <<>> /\ Head(s) = " " THEN TrimLeft(Tail(s)) ELSE s
RECURSIVE TrimRight(_)
TrimRight(s) ==
  IF s # <<>> /\ s[Len(s)] = " " THEN TrimRight(SubSeq(s, 1, Len(s) - 1)) ELSE s
trim(s) == TrimLeft(TrimRight(s))

\* String.prototype.split(","): cur is the piece being read
RECURSIVE SplitFrom(_, _)
SplitFrom(s, cur) ==
  IF s = <<>> THEN <<cur>>
  ELSE IF Head(s) = "," THEN <<cur>> \o SplitFrom(Tail(s), <<>>)
       ELSE SplitFrom(Tail(s), Append(cur, Head(s)))
split(s) == SplitFrom(s, <<>>)

\* skills.split(",").map((skill) => skill.trim())
splitSkills(skills) == [i \in 1..Len(split(skills)) |-> trim(split(skills)[i])]

\* Array.prototype.indexOf over the ids of the entries, 0-based, -1 when absent
\* (a faulty variant: positions counted from 1)
indexOfFrom1(seq, id) ==
  IF \E i \in 1..Len(seq) : seq[i].id = id
  THEN CHOOSE i \in 1..Len(seq) : seq[i].id = id
  ELSE -1
indexOf(seq, id) ==
  IF \E i \in 1..Len(seq) : seq[i].id = id
  THEN (CHOOSE i \in 1..Len(seq) : seq[i].id = id /\ \A j \in 1..(i - 1) : seq[j].id # id) - 1
  ELSE -1

\* Array.prototype.splice(start, 1) with a 0-based start; a negative start
\* counts from the end of the array
splice(seq, start) ==
  LET from == IF start < 0
              THEN (IF Len(seq) + start < 0 THEN 0 ELSE Len(seq) + start)
              ELSE (IF start > Len(seq) THEN Len(seq) ELSE start)
  IN  IF from >= Len(seq) THEN seq
      ELSE [i \in 1..(Len(seq) - 1) |-> IF i <= from THEN seq[i] ELSE seq[i + 1]]

\* Array.prototype.unshift
unshift(seq, e) == <<e>> \o seq

(* ------------------------------ documents ----------------------------- *)

\* req.user before the middleware sets it
NoUser == [id |-> 0]
NoToken == [user |-> NoUser, exp |-> 0, sig |-> <<>>]

\* res.status(status).json({ errors })
jsonErrors(errors) ==
  [kind |-> "json", members |-> {"errors"}, errors |-> errors, msg |-> ""]
\* res.status(status).json({ errors: errors.array }): the member is a function,
\* which JSON.stringify leaves out of the object
jsonErrorsUncalled(errors) ==
  [kind |-> "json", members |-> {}, errors |-> <<>>, msg |-> ""]
\* res.status(status).json({ msg })
jsonMsg(msg) ==
  [kind |-> "json", members |-> {"msg"}, errors |-> <<>>, msg |-> msg]
\* res.json({ token })
jsonToken ==
  [kind |-> "json", members |-> {"token"}, errors |-> <<>>, msg |-> ""]
\* res.json(profile), res.json(profiles), res.json(gitHubResponse.data)
jsonDoc ==
  [kind |-> "json", members |-> {"data"}, errors |-> <<>>, msg |-> ""]
\* res.status(status).send(text)
sendText(text) ==
  [kind |-> "text", members |-> {}, errors |-> <<>>, msg |-> text]

\* a response: the route, the status and body sent, and req.user.id as the
\* route's handler had it (NoUser.id: the handler was not invoked, or the
\* route is public)
Response(route, status, body, user) ==
  [route |-> route, status |-> status, body |-> body, user |-> user]

Respond(route, status, body, user) ==
  last' = Response(route, status, body, user)

\* the requests being served
Frames == BagToSet(req)
Enter(frame) == req' = req (+) SetToBag({frame})
Leave(frame) == req' = req (-) SetToBag({frame})
Move(frame, to) == req' = (req (-) SetToBag({frame})) (+) SetToBag({to})
Accepting == BagCardinality(req) < MaxInFlight

(* ------------------------------ the store ----------------------------- *)

\* User.findOne({ email })
userByEmail(email) == {u \in users : u.email = email}

\* Profile.findOne({ user }): the position of the first match, 0 when none
\* (a faulty variant: findOne() without the filter)
profileIndexAny(ps, user) == IF ps = <<>> THEN 0 ELSE 1
profileIndex(ps, user) ==
  IF \E i \in 1..Len(ps) : ps[i].user = user
  THEN CHOOSE i \in 1..Len(ps) :
         ps[i].user = user /\ \A j \in 1..(i - 1) : ps[j].user # user
  ELSE 0

\* the position of the document with this _id, 0 when it is gone
profileById(ps, id) ==
  IF \E i \in 1..Len(ps) : ps[i].id = id
  THEN CHOOSE i \in 1..Len(ps) : ps[i].id = id
  ELSE 0

RemoveAt(ps, i) == [j \in 1..(Len(ps) - 1) |-> IF j < i THEN ps[j] ELSE ps[j + 1]]

\* the User schema declares email unique: the store refuses a second
\* document with an email it holds, and save() throws
emailTaken(user) == \E u \in users : u.email = user.email

(* --------------------------- the middleware --------------------------- *)

\* what a client can put in x-auth-token: nothing (an absent and an empty
\* header are the same to the middleware), a token it was issued, or a token
\* it altered (another user's id in the payload, the signature kept) or made
\* up without the secret
Tampered ==
  { [t EXCEPT !.user = [id |-> (t.user.id % MaxUsers) + 1]] : t \in issued }
  \cup { jwtSign([user |-> [id |-> 1]], "guessed", now) }

Headers ==
  {[kind |-> "none", token |-> NoToken]}
  \cup { [kind |-> "token", token |-> t] : t \in issued \cup Tampered }

\* middleware/auth.js: ok when next() is called, user is req.user
\* (a faulty variant: the token decoded, not verified)
authDecodeOnly(header, at) ==
  IF header.kind # "token"
  THEN [ok |-> FALSE, user |-> NoUser, msg |-> "No token, authorization denied"]
  ELSE [ok |-> TRUE, user |-> header.token.user, msg |-> ""]
auth(header, at) ==
  IF header.kind # "token"
  THEN [ok |-> FALSE, user |-> NoUser, msg |-> "No token, authorization denied"]
  ELSE IF jwtVerify(header.token, jwtSecret, at)
       THEN [ok |-> TRUE, user |-> header.token.user, msg |-> ""]
       ELSE [ok |-> FALSE, user |-> NoUser, msg |-> "Token is not valid"]

\* the answer of a request that changes nothing
Answer(route, status, body, user) ==
  /\ Respond(route, status, body, user)
  /\ UNCHANGED <<users, profiles, nextUserId, nextProfileId, nextSubId, req, issued, now>>

\* the routes declared with the middleware in front of their handler
EntryRoutes ==
  {"PUT /profile/experience", "DELETE /profile/experience/:exp_id",
   "PUT /profile/education", "DELETE /profile/education/:edu_id"}
ProfileRoutes == {"GET /profile/me", "POST /profile", "DELETE /profile"}
ProtectedRoutes == ProfileRoutes \cup EntryRoutes

\* router.METHOD(route, auth, handler), the middleware does not call next():
\* it answers 401 itself and the handler is not invoked
Refuse(route, header) ==
  LET a == auth(header, now) IN
  /\ Accepting
  /\ ~a.ok
  /\ Answer(route, 401, jsonMsg(a.msg), NoUser.id)

(* ----------------------------- POST /users ---------------------------- *)

registerChecks(body) ==
  << [param |-> "name", ok |-> body.name # "", msg |-> "Name is required"],
     [param |-> "email", ok |-> IsEmail(body.email), msg |-> "please include valid email"],
     [param |-> "password", ok |-> Len(body.password) >= PasswordMin,
      msg |-> "please enter a password with 6 or more charaters"] >>

\* validation, User.findOne({ email }), new User({ name, email, avatar, password })
Register(body) ==
  /\ Accepting
  /\ LET errors == errorsArray(registerChecks(body)) IN
     IF errors # <<>>
     THEN Answer("POST /users", 400, jsonErrors(errors), NoUser.id)
     ELSE IF userByEmail(body.email) # {}
     THEN Answer("POST /users", 400,
                 jsonErrors(<<[msg |-> "User already exists"]>>), NoUser.id)
     ELSE /\ nextUserId <= MaxUsers
          /\ Enter([pc |-> "hash", password |-> body.password,
                    newUser |-> [id |-> nextUserId, name |-> body.name,
                                 email |-> body.email, avatar |-> gravatarUrl(body.email),
                                 password |-> body.password]])
          /\ nextUserId' = nextUserId + 1
          /\ UNCHANGED <<users, profiles, nextProfileId, nextSubId, last, issued, now>>

\* bcrypt.genSalt(10), user.password = bcrypt.hash(password, salt)
RegisterHash(r, salt) ==
  /\ r.pc = "hash"
  /\ Move(r, [r EXCEPT !.pc = "save", !.newUser.password = bcryptHash(r.password, salt)])
  /\ UNCHANGED <<users, profiles, nextUserId, nextProfileId, nextSubId, last, issued, now>>

\* user.save()
RegisterSave(r) ==
  /\ r.pc = "save"
  /\ IF emailTaken(r.newUser)
     THEN /\ Respond("POST /users", 500, sendText("Server error"), NoUser.id)
          /\ Leave(r)
          /\ UNCHANGED users
     ELSE /\ users' = users \cup {r.newUser}
          /\ Move(r, [r EXCEPT !.pc = "sign"])
          /\ UNCHANGED last
  /\ UNCHANGED <<profiles, nextUserId, nextProfileId, nextSubId, issued, now>>

\* jwt.sign(payload, secret, { expiresIn: 360000 }, callback), res.json({ token })
RegisterSign(r) ==
  /\ r.pc = "sign"
  /\ LET payload == [user |-> [id |-> r.newUser.id]] IN
     issued' = issued \cup {jwtSign(payload, jwtSecret, now)}
  /\ Respond("POST /users", 200, jsonToken, NoUser.id)
  /\ Leave(r)
  /\ UNCHANGED <<users, profiles, nextUserId, nextProfileId, nextSubId, now>>

(* ---------------------------- GET /profile/me -------------------------- *)

\* auth, Profile.findOne({ user: req.user.id }).populate("user", ["name", "avatar"])
GetMe(header) ==
  LET a == auth(header, now) IN
  /\ Accepting
  /\ a.ok
  /\ IF profileIndex(profiles, a.user.id) = 0
     THEN Answer("GET /profile/me", 400, jsonMsg("There is no profile for this user"),
                 a.user.id)
     ELSE Answer("GET /profile/me", 200, jsonDoc, a.user.id)

(* ----------------------------- POST /profile --------------------------- *)

profileChecks(body) ==
  << [param |-> "status", ok |-> body.top["status"] # "", msg |-> "Status is required"],
     [param |-> "skills", ok |-> body.skills # <<>>, msg |-> "Skills are required"] >>

\* the partial update built from the body: a field is a member only when the
\* body's value is truthy; social is always a member, with the links given.
\* skills holds the split list, or nothing
profileFieldsOf(user, body) ==
  [user   |-> user,
   top    |-> [f \in {g \in TopFields : body.top[g] # ""} |-> body.top[f]],
   skills |-> IF body.skills # <<>> THEN <<splitSkills(body.skills)>> ELSE <<>>,
   social |-> [f \in {g \in SocialFields : body.social[g] # ""} |-> body.social[f]]]

\* { $set: profileFields } applied to a stored document: each member of the
\* update replaces the document's value at that path, social as a whole
setFields(doc, pf) ==
  [doc EXCEPT
     !.user   = pf.user,
     !.top    = [f \in TopFields |-> IF f \in DOMAIN pf.top THEN pf.top[f] ELSE doc.top[f]],
     !.skills = IF pf.skills # <<>> THEN pf.skills[1] ELSE doc.skills,
     !.social = [f \in SocialFields |-> IF f \in DOMAIN pf.social THEN pf.social[f] ELSE ""]]

\* new Profile(profileFields): the paths not given are unset, the arrays empty
newProfile(id, pf) ==
  [id |-> id, user |-> pf.user,
   top    |-> [f \in TopFields |-> IF f \in DOMAIN pf.top THEN pf.top[f] ELSE ""],
   skills |-> IF pf.skills # <<>> THEN pf.skills[1] ELSE <<>>,
   social |-> [f \in SocialFields |-> IF f \in DOMAIN pf.social THEN pf.social[f] ELSE ""],
   experience |-> <<>>, education |-> <<>>]

\* auth, validation, profileFields, Profile.findOne({ user: req.user.id })
PostProfile(header, body) ==
  /\ Accepting
  /\ LET a == auth(header, now)
         errors == errorsArray(profileChecks(body))
         profileFields == profileFieldsOf(a.user.id, body)
     IN  /\ a.ok
         /\ IF errors # <<>>
            THEN Answer("POST /profile", 400, jsonErrors(errors), a.user.id)
            ELSE IF profileIndex(profiles, a.user.id) # 0
            THEN /\ Enter([pc |-> "update", user |-> a.user.id,
                           profileFields |-> profileFields])
                 /\ UNCHANGED <<users, profiles, nextUserId, nextProfileId, nextSubId,
                                last, issued, now>>
            ELSE /\ nextProfileId <= MaxProfiles
                 /\ Enter([pc |-> "insert", user |-> a.user.id,
                           profile |-> newProfile(nextProfileId, profileFields)])
                 /\ nextProfileId' = nextProfileId + 1
                 /\ UNCHANGED <<users, profiles, nextUserId, nextSubId, last, issued, now>>

\* Profile.findOneAndUpdate({ user }, { $set: profileFields }, { new: true })
PostProfileUpdate(r) ==
  /\ r.pc = "update"
  /\ LET i == profileIndex(profiles, r.user) IN
     profiles' = IF i = 0 THEN profiles
                 ELSE [profiles EXCEPT ![i] = setFields(profiles[i], r.profileFields)]
  /\ Respond("POST /profile", 200, jsonDoc, r.user)
  /\ Leave(r)
  /\ UNCHANGED <<users, nextUserId, nextProfileId, nextSubId, issued, now>>

\* profile.save() of the new document: nothing in the handler or the store
\* keeps a user to one Profile, the document is inserted
PostProfileInsert(r) ==
  /\ r.pc = "insert"
  /\ profiles' = Append(profiles, r.profile)
  /\ Respond("POST /profile", 200, jsonDoc, r.user)
  /\ Leave(r)
  /\ UNCHANGED <<users, nextUserId, nextProfileId, nextSubId, issued, now>>

(* ------------------- GET /profile, GET /profile/user/:id --------------- *)

\* Profile.find().populate("user", ["name", "avatar"])
GetProfiles == Answer("GET /profile", 200, jsonDoc, NoUser.id)

\* Profile.findOne({ user: req.params.user_id }); an id that is no ObjectId
\* (here: below 1) makes the query throw an error of kind "ObjectId"
GetProfileByUserId(user_id) ==
  IF user_id < 1 \/ profileIndex(profiles, user_id) = 0
  THEN Answer("GET /profile/user/:user_id", 400, jsonMsg("Profile Not Found"), NoUser.id)
  ELSE Answer("GET /profile/user/:user_id", 200, jsonDoc, NoUser.id)

\* axios.get(uri, { headers }): the external API answers or fails
GetGithub(found) ==
  IF found
  THEN Answer("GET /profile/github/:username", 200, jsonDoc, NoUser.id)
  ELSE Answer("GET /profile/github/:username", 404, jsonMsg("No Github profile found"),
              NoUser.id)

(* ---------------------------- DELETE /profile -------------------------- *)

\* auth, Profile.findOneAndRemove({ user: req.user.id })
DeleteProfile(header) ==
  /\ Accepting
  /\ LET a == auth(header, now)
         i == profileIndex(profiles, a.user.id)
     IN  /\ a.ok
         /\ profiles' = IF i = 0 THEN profiles ELSE RemoveAt(profiles, i)
         /\ Enter([pc |-> "removeUser", user |-> a.user.id])
         /\ UNCHANGED <<users, nextUserId, nextProfileId, nextSubId, last, issued, now>>

\* User.findOneAndRemove({ _id: req.user.id }), res.json({ msg: "User Deleted" })
DeleteProfileUser(r) ==
  /\ r.pc = "removeUser"
  /\ users' = {u \in users : u.id # r.user}
  /\ Respond("DELETE /profile", 200, jsonMsg("User Deleted"), r.user)
  /\ Leave(r)
  /\ UNCHANGED <<profiles, nextUserId, nextProfileId, nextSubId, issued, now>>

(* ------------- PUT /profile/experience, PUT /profile/education --------- *)

experienceChecks(body) ==
  << [param |-> "title", ok |-> body.title # "", msg |-> "title is required"],
     [param |-> "company", ok |-> body.company # "", msg |-> "company is required"],
     [param |-> "from", ok |-> body.from # "", msg |-> "From date is required"] >>

educationChecks(body) ==
  << [param |-> "school", ok |-> body.school # "", msg |-> "school is required"],
     [param |-> "degree", ok |-> body.degree # "", msg |-> "degree is required"],
     [param |-> "from", ok |-> body.from # "", msg |-> "From date is required"],
     [param |-> "fieldOfStudy", ok |-> body.fieldOfStudy # "", msg |-> "fieldOfStudy"] >>

\* the handler's frame between findOne and save(): the document it read, the
\* array it changed, removeIndex (-1 in a PUT, which has none) and the array's
\* new value. fresh: the stored document still has the version (__v) it was
\* read with
Loaded(route, user, path, doc, index, entries) ==
  [pc |-> "saveProfile", route |-> route, user |-> user, path |-> path, doc |-> doc,
   removeIndex |-> index, entries |-> entries, fresh |-> TRUE]

\* auth, validation, Profile.findOne({ user }), profile[path].unshift(entry):
\* the array makes a subdocument of the entry, with an _id of its own
AddEntry(route, path, header, checks, fields) ==
  /\ Accepting
  /\ LET a == auth(header, now)
         errors == errorsArray(checks)
         i == profileIndex(profiles, a.user.id)
     IN  /\ a.ok
         /\ IF errors # <<>>
            THEN Answer(route, 400, jsonErrorsUncalled(errors), a.user.id)
            ELSE IF i = 0
            THEN \* profile is null: reading profile[path] throws, the catch answers
                 Answer(route, 500, sendText("Server Error"), a.user.id)
            ELSE /\ nextSubId <= MaxEntries
                 /\ Enter(Loaded(route, a.user.id, path, profiles[i].id, -1,
                                 unshift(profiles[i][path],
                                         [id |-> nextSubId, fields |-> fields])))
                 /\ nextSubId' = nextSubId + 1
                 /\ UNCHANGED <<users, profiles, nextUserId, nextProfileId, last, issued,
                                now>>

AddExperience(header, body) ==
  AddEntry("PUT /profile/experience", "experience", header, experienceChecks(body), body)

AddEducation(header, body) ==
  AddEntry("PUT /profile/education", "education", header, educationChecks(body), body)

(* ---- DELETE /profile/experience/:exp_id, /profile/education/:edu_id --- *)

\* profile[path].map((item) => item.id).indexOf(id)
removeIndex(entries, id) == indexOf(entries, id)

\* auth, Profile.findOne({ user }), removeIndex, profile[path].splice(removeIndex, 1)
DeleteEntry(route, path, header, id) ==
  /\ Accepting
  /\ LET a == auth(header, now)
         i == profileIndex(profiles, a.user.id)
     IN  /\ a.ok
         /\ IF i = 0
            THEN \* profile is null: reading profile[path] throws, the catch answers
                 Answer(route, 500, sendText("Server Error"), a.user.id)
            ELSE /\ Enter(Loaded(route, a.user.id, path, profiles[i].id,
                                 removeIndex(profiles[i][path], id),
                                 splice(profiles[i][path],
                                        removeIndex(profiles[i][path], id))))
                 /\ UNCHANGED <<users, profiles, nextUserId, nextProfileId, nextSubId,
                                last, issued, now>>

DeleteExperience(header, exp_id) ==
  DeleteEntry("DELETE /profile/experience/:exp_id", "experience", header, exp_id)

DeleteEducation(header, edu_id) ==
  DeleteEntry("DELETE /profile/education/:edu_id", "education", header, edu_id)

\* what a successful save() of document doc does to another frame: a frame
\* that read the same document no longer holds its version. Its own save()
\* will throw whatever it was about to write, so the model forgets that
Outdate(frame, doc) ==
  IF frame.pc = "saveProfile" /\ frame.doc = doc
  THEN [frame EXCEPT !.fresh = FALSE, !.removeIndex = -1, !.entries = <<>>]
  ELSE frame

\* profile.save() of a read document whose array was changed: the array is
\* written if the stored document still has the version it was read with,
\* and the version moves on; otherwise save() throws and the catch answers
ProfileSave(r) ==
  /\ r.pc = "saveProfile"
  /\ LET i == profileById(profiles, r.doc)
         Others == req (-) SetToBag({r})
         Mark(frame) == Outdate(frame, r.doc)
     IN  IF r.fresh /\ i # 0
         THEN /\ profiles' = [profiles EXCEPT ![i][r.path] = r.entries]
              /\ Respond(r.route, 200, jsonDoc, r.user)
              /\ req' = BagOfAll(Mark, Others)
         ELSE /\ Respond(r.route, 500, sendText("Server Error"), r.user)
              /\ req' = Others
              /\ UNCHANGED profiles
  /\ UNCHANGED <<users, nextUserId, nextProfileId, nextSubId, issued, now>>

(* -------------------------------- time --------------------------------- *)

\* the clock moves on by one token lifetime
Tick ==
  /\ now < MaxTicks * ExpiresIn
  /\ now' = now + ExpiresIn
  /\ UNCHANGED <<users, profiles, nextUserId, nextProfileId, nextSubId, req, last, issued>>

(* --------------------------- the specification ------------------------- *)

Init ==
  /\ users = {}
  /\ profiles = <<>>
  /\ nextUserId = 1
  /\ nextProfileId = 1
  /\ nextSubId = 1
  /\ req = EmptyBag
  /\ last = Response("", 0, sendText(""), NoUser.id)
  /\ issued = {}
  /\ now = 0

Next ==
  \/ \E body \in RegisterBodies : Register(body)
  \/ \E r \in Frames, salt \in Salts : RegisterHash(r, salt)
  \/ \E r \in Frames : RegisterSave(r)
  \/ \E r \in Frames : RegisterSign(r)
  \/ \E route \in ProtectedRoutes, header \in Headers : Refuse(route, header)
  \/ \E header \in Headers : GetMe(header)
  \/ \E header \in Headers, body \in ProfileBodies : PostProfile(header, body)
  \/ \E r \in Frames : PostProfileUpdate(r)
  \/ \E r \in Frames : PostProfileInsert(r)
  \/ GetProfiles
  \/ \E user_id \in 0..MaxUsers : GetProfileByUserId(user_id)
  \/ \E found \in BOOLEAN : GetGithub(found)
  \/ \E header \in Headers : DeleteProfile(header)
  \/ \E r \in Frames : DeleteProfileUser(r)
  \/ \E header \in Headers, body \in ExpBodies : AddExperience(header, body)
  \/ \E header \in Headers, body \in EduBodies : AddEducation(header, body)
  \/ \E header \in Headers, exp_id \in 0..MaxEntries : DeleteExperience(header, exp_id)
  \/ \E header \in Headers, edu_id \in 0..MaxEntries : DeleteEducation(header, edu_id)
  \/ \E r \in Frames : ProfileSave(r)
  \/ Tick

Spec == Init /\ [][Next]_vars

(* ----------------- specifications of parts of the API ------------------ *)

\* registration and account removal, from the empty store
NextAccounts ==
  \/ \E body \in RegisterBodies : Register(body)
  \/ \E r \in Frames, salt \in Salts : RegisterHash(r, salt)
  \/ \E r \in Frames : RegisterSave(r)
  \/ \E r \in Frames : RegisterSign(r)
  \/ \E header \in Headers : Refuse("DELETE /profile", header)
  \/ \E header \in Headers : DeleteProfile(header)
  \/ \E r \in Frames : DeleteProfileUser(r)

SpecAccounts == Init /\ [][NextAccounts]_vars

\* the documents and tokens two registrations leave, served one after the other
SeedUser(id, email) ==
  [id |-> id, name |-> "ann", email |-> email, avatar |-> gravatarUrl(email),
   password |-> bcryptHash(GoodPassword, 1)]
SeedToken(id) == jwtSign([user |-> [id |-> id]], jwtSecret, 0)
\* the document POST /profile with FullBody leaves for a user without one
SeedProfile(id, user) == newProfile(id, profileFieldsOf(user, FullBody))

\* two registered users, no Profile yet
InitRegistered ==
  /\ users = {SeedUser(1, "a@x.io"), SeedUser(2, "b@x.io")}
  /\ issued = {SeedToken(1), SeedToken(2)}
  /\ nextUserId = 3
  /\ profiles = <<>>
  /\ nextProfileId = 1
  /\ nextSubId = 1
  /\ req = EmptyBag
  /\ last = Response("", 0, sendText(""), NoUser.id)
  /\ now = 0

\* the profile document's own routes
NextProfile ==
  \/ \E route \in ProfileRoutes, header \in Headers : Refuse(route, header)
  \/ \E header \in Headers : GetMe(header)
  \/ \E header \in Headers, body \in ProfileBodies : PostProfile(header, body)
  \/ \E r \in Frames : PostProfileUpdate(r)
  \/ \E r \in Frames : PostProfileInsert(r)
  \/ \E header \in Headers : DeleteProfile(header)
  \/ \E r \in Frames : DeleteProfileUser(r)

SpecProfile == InitRegistered /\ [][NextProfile]_vars

\* two registered users, the first with a Profile
InitEntries ==
  /\ users = {SeedUser(1, "a@x.io"), SeedUser(2, "b@x.io")}
  /\ issued = {SeedToken(1), SeedToken(2)}
  /\ nextUserId = 3
  /\ profiles = <<SeedProfile(1, 1)>>
  /\ nextProfileId = 2
  /\ nextSubId = 1
  /\ req = EmptyBag
  /\ last = Response("", 0, sendText(""), NoUser.id)
  /\ now = 0

\* the routes of the experience and education arrays
NextEntries ==
  \/ \E route \in EntryRoutes, header \in Headers : Refuse(route, header)
  \/ \E header \in Headers, body \in ExpBodies : AddExperience(header, body)
  \/ \E header \in Headers, body \in EduBodies : AddEducation(header, body)
  \/ \E header \in Headers, exp_id \in 0..MaxEntries : DeleteExperience(header, exp_id)
  \/ \E header \in Headers, edu_id \in 0..MaxEntries : DeleteEducation(header, edu_id)
  \/ \E r \in Frames : ProfileSave(r)

SpecEntries == InitEntries /\ [][NextEntries]_vars

\* one registered user without a Profile, after earlier documents and entries
\* were made and removed: one Profile _id and one subdocument _id are left to
\* hand out
InitProtected ==
  /\ users = {SeedUser(1, "a@x.io")}
  /\ issued = {SeedToken(1)}
  /\ nextUserId = 2
  /\ profiles = <<>>
  /\ nextProfileId = MaxProfiles
  /\ nextSubId = MaxEntries
  /\ req = EmptyBag
  /\ last = Response("", 0, sendText(""), NoUser.id)
  /\ now = 0

\* every route behind the middleware, and the clock
NextProtected ==
  \/ \E route \in ProtectedRoutes, header \in Headers : Refuse(route, header)
  \/ \E header \in Headers : GetMe(header)
  \/ \E header \in Headers, body \in ProfileBodies : PostProfile(header, body)
  \/ \E r \in Frames : PostProfileUpdate(r)
  \/ \E r \in Frames : PostProfileInsert(r)
  \/ \E header \in Headers : DeleteProfile(header)
  \/ \E r \in Frames : DeleteProfileUser(r)
  \/ \E header \in Headers, body \in ExpBodies : AddExperience(header, body)
  \/ \E header \in Headers, body \in EduBodies : AddEducation(header, body)
  \/ \E header \in Headers, exp_id \in 0..MaxEntries : DeleteExperience(header, exp_id)
  \/ \E header \in Headers, edu_id \in 0..MaxEntries : DeleteEducation(header, edu_id)
  \/ \E r \in Frames : ProfileSave(r)
  \/ Tick

SpecProtected == InitProtected /\ [][NextProtected]_vars

(* ------------------------------ properties ----------------------------- *)

Range(seq) == {seq[i] : i \in 1..Len(seq)}
Ids(seq) == [i \in 1..Len(seq) |-> seq[i].id]
\* seq without the entries that carry id
Without(seq, id) == SelectSeq(seq, LAMBDA e : e.id # id)
HasProfile(user) == \E i \in 1..Len(profiles) : profiles[i].user = user
\* the Profile a query by owner finds
Owned(user) ==
  CHOOSE i \in 1..Len(profiles) :
    profiles[i].user = user /\ \A j \in 1..(i - 1) : profiles[j].user # user
DocAt(id) == CHOOSE i \in 1..Len(profiles) : profiles[i].id = id

ValidatedRoutes ==
  {"POST /users", "POST /profile", "PUT /profile/experience", "PUT /profile/education"}
PutRoutes == {"PUT /profile/experience", "PUT /profile/education"}
DeleteRoutes == EntryRoutes \ PutRoutes

\* this step is the answer of a handler that entered no frame
Answers == UNCHANGED <<req, now>>
\* this step begins to serve a request: its frame is the one req gains
Enters(f) ==
  /\ BagCardinality(req') = BagCardinality(req) + 1
  /\ req' = req (+) SetToBag({f})
\* this step ends the frame r with the given response
Ends(r, response) ==
  /\ BagCardinality(req') = BagCardinality(req) - 1
  /\ CopiesIn(r, req') < CopiesIn(r, req)
  /\ last' = response
\* this step is the successful save() of the array frame r changed
Saves(r) ==
  /\ r.pc = "saveProfile"
  /\ r.fresh
  /\ \E i \in 1..Len(profiles) : profiles[i].id = r.doc
  /\ Ends(r, Response(r.route, 200, jsonDoc, r.user))
  /\ Len(profiles') = Len(profiles)
  /\ profiles'[DocAt(r.doc)][r.path] = r.entries

\* C1: no two stored Users have the same email, and a registration that ends
\* while a stored User holds its email ends with 400 "User already exists"
C1_DuplicateEmailRejected ==
  [][ /\ \A u, v \in users' : u.email = v.email => u = v
      /\ \A r \in Frames :
           ( /\ r.pc = "save"
             /\ req' = req (-) SetToBag({r})
             /\ \E u \in users : u.email = r.newUser.email )
           => last' = Response("POST /users", 400,
                               jsonErrors(<<[msg |-> "User already exists"]>>), NoUser.id)
    ]_vars

\* C2: no two Profile documents have the same owner
C2_OneProfilePerUser ==
  \A i, j \in 1..Len(profiles) : profiles[i].user = profiles[j].user => i = j

\* C3: the save() of a DELETE of an entry whose identifier matched no entry of
\* the array (removeIndex is -1) leaves every stored Profile as it was
C3_AbsentIdLeavesSequence ==
  [][ \A r \in Frames :
        (Saves(r) /\ r.route \in DeleteRoutes /\ r.removeIndex = -1)
        => profiles' = profiles ]_vars

\* C4: for every array the store comes to hold, a DELETE with the identifier
\* of one of its entries finds that entry's position (and -1 for any other
\* identifier) and takes out that entry only; the save() of a PUT puts its
\* entry in front of the stored array, the save() of a DELETE that found its
\* entry removes that entry only: the others stay, in their order, and nothing
\* else in the store changes
C4_DeleteRemovesThatEntry ==
  [][ /\ profiles' # profiles =>
           \A i \in 1..Len(profiles'), path \in {"experience", "education"},
              id \in 0..MaxEntries :
             LET seq == profiles'[i][path]
                 k == removeIndex(seq, id)
             IN  IF \E e \in Range(seq) : e.id = id
                 THEN /\ k \in 0..(Len(seq) - 1)
                      /\ seq[k + 1].id = id
                      /\ splice(seq, k) = Without(seq, id)
                 ELSE k = -1
      /\ ( /\ BagCardinality(req') < BagCardinality(req)
           /\ last'.status = 200
           /\ last'.route \in EntryRoutes )
         => \E r \in Frames : Saves(r)
      /\ \A r \in Frames :
           Saves(r) =>
             LET i == DocAt(r.doc)
                 old == profiles[i][r.path]
                 new == profiles'[i][r.path]
             IN  /\ profiles' = [profiles EXCEPT ![i][r.path] = new]
                 /\ UNCHANGED users
                 /\ r.route \in PutRoutes =>
                      /\ new # <<>>
                      /\ Tail(new) = old
                      /\ \A e \in Range(old) : e.id # Head(new).id
                 /\ (r.route \in DeleteRoutes /\ r.removeIndex >= 0) =>
                      /\ r.removeIndex < Len(old)
                      /\ new = Without(old, old[r.removeIndex + 1].id)
                      /\ Len(new) = Len(old) - 1
    ]_vars

\* C4's case: of three experience entries put one after the other, the one in
\* the middle was deleted
C4_MiddleEntryDeleted ==
  /\ last = Response("DELETE /profile/experience/:exp_id", 200, jsonDoc, 1)
  /\ Len(profiles) = 1
  /\ Ids(profiles[1].experience) = <<3, 1>>
  /\ profiles[1].education = <<>>

\* C5: the update of POST /profile leaves every field the body did not supply,
\* each link of social and the two arrays as they were
C5_UpdateKeepsOtherFields ==
  [][ \A r \in Frames :
        ( /\ r.pc = "update"
          /\ HasProfile(r.user)
          /\ Ends(r, Response("POST /profile", 200, jsonDoc, r.user)) )
        => LET i == Owned(r.user) IN
           /\ Len(profiles') = Len(profiles)
           /\ \A f \in TopFields \ DOMAIN r.profileFields.top :
                profiles'[i].top[f] = profiles[i].top[f]
           /\ \A f \in SocialFields \ DOMAIN r.profileFields.social :
                profiles'[i].social[f] = profiles[i].social[f]
           /\ profiles'[i].experience = profiles[i].experience
           /\ profiles'[i].education = profiles[i].education
    ]_vars

\* the tokens that verify now, and the user ids they were issued for
Verifying == {t \in issued : now < t.exp}
Holders == {t.user.id : t \in Verifying}

\* C6: the middleware calls the handler exactly for a header that carries an
\* issued, unexpired token, with req.user the id the token was issued for; a
\* request without a token is told "No token, authorization denied", one with
\* any other token "Token is not valid"; no handler of a protected route runs
\* for another user id, and a 401 leaves the store and the requests as they were
C6_HandlerOnlyBehindValidToken ==
  [][ /\ \A h \in Headers :
           LET a == auth(h, now) IN
           /\ a.ok <=> (h.kind = "token" /\ h.token \in Verifying)
           /\ a.ok => a.user = h.token.user
           /\ ~a.ok => /\ a.user = NoUser
                       /\ a.msg = IF h.kind = "token" THEN "Token is not valid"
                                  ELSE "No token, authorization denied"
      /\ \A f \in BagToSet(req' (-) req) : Enters(f) => f.user \in Holders
      /\ (Answers /\ last'.route \in ProtectedRoutes) =>
           IF last'.status = 401
           THEN /\ last'.user = NoUser.id
                /\ last'.body \in {jsonMsg("No token, authorization denied"),
                                   jsonMsg("Token is not valid")}
                /\ UNCHANGED <<users, profiles, nextUserId, nextProfileId, nextSubId,
                               issued>>
           ELSE last'.user \in Holders
    ]_vars

\* C6's case: the user's Profile was made behind a valid token, and a request
\* with an altered token was refused while the issued token had not expired
C6_AlteredTokenRefused ==
  /\ last = Response("DELETE /profile", 401, jsonMsg("Token is not valid"), NoUser.id)
  /\ now = 0
  /\ HasProfile(1)
  /\ \E u \in users : u.id = 1

\* C7: a 400 of a validated route carries the non-empty array of the failed
\* checks in the member errors of its body
C7_ValidationErrorsArray ==
  (last.status = 400 /\ last.route \in ValidatedRoutes)
  => ("errors" \in last.body.members /\ last.body.errors # <<>>)

\* C8: a stored password is no submitted plaintext; the User a save() stores
\* holds a password that differs from the plaintext of its registration and
\* that the plaintext verifies against, and it keeps it
C8_StoredPasswordIsHash ==
  [][ /\ \A u \in users' : u.password \notin PasswordInputs
      /\ \A u \in users' \ users :
           \E r \in Frames :
             /\ r.pc = "save"
             /\ r.newUser = u
             /\ u.password # r.password
             /\ bcryptCompare(r.password, u.password)
             /\ \A p \in PasswordInputs \ {r.password} : ~bcryptCompare(p, u.password)
      /\ \A r \in Frames :
           r.pc = "sign" => \E u \in users : u.id = r.newUser.id /\ u = r.newUser
    ]_vars

\* C8's case: both registrations, with different passwords, are stored
C8_TwoUsersStored ==
  /\ Cardinality(users) = 2
  /\ \E u \in users : bcryptCompare(GoodPassword, u.password)
  /\ \E u \in users : bcryptCompare(LongPassword, u.password)

\* C9: the owner of every stored Profile is a stored User
C9_OwnerExists ==
  \A i \in 1..Len(profiles) : \E u \in users : u.id = profiles[i].user

\* C10: a handler of the experience / education routes goes on to its save()
\* only for a user who has a Profile; for an authenticated user without one
\* whose input is valid, the answer is 500 "Server Error", no frame is left to
\* answer again, and no document or _id counter has changed
C10_NoProfileAnswers500 ==
  [][ /\ \A f \in BagToSet(req' (-) req) :
           (Enters(f) /\ f.pc = "saveProfile") => HasProfile(f.user)
      /\ ( /\ Answers
           /\ last'.route \in EntryRoutes
           /\ last'.user # NoUser.id
           /\ ~HasProfile(last'.user)
           /\ last'.status # 400 )
         => /\ last' = Response(last'.route, 500, sendText("Server Error"), last'.user)
            /\ UNCHANGED <<users, profiles, nextUserId, nextProfileId, nextSubId, req>>
    ]_vars

\* C10's case: the user without a Profile was answered 500 after the other
\* user's array had been written
C10_NoProfileUserAnswered ==
  /\ last = Response("PUT /profile/education", 500, sendText("Server Error"), 2)
  /\ ~HasProfile(2)
  /\ Len(profiles) = 1
  /\ profiles[1].experience # <<>>

====
